---- MODULE Spec2Model ----
(***************************************************************************)
(* Model of the Jina MCP tool server: src/index.ts (the schema-validating  *)
(* program) and src/unnamed/part_001 (the variant of the same program that *)
(* calls callJinaApi directly and checks response shapes by hand).         *)
(*                                                                         *)
(* Strings are sequences of one-character strings, so that split, trim and *)
(* join are computed character by character as the code computes them.     *)
(***************************************************************************)
EXTENDS Integers, Sequences, FiniteSets, TLC

\* ------------------------------------------------------------------ bounds
\* Words per chunk used by the tool handlers. The source default is 200
\* (chunkText(text, chunkSize = 200)); the model scales it down so that a
\* document of a few words already spans several chunks.
DefaultChunkSize == 2
\* Longest text, in characters, of the exhaustive chunkText harness.
MaxTextLen == 4
\* Largest chunk size of the exhaustive chunkText harness.
MaxChunkSize == 2
\* Most chunks of a document in the ranking harness: one more than the
\* five the handlers keep.
MaxRankLen == 6
\* Most tool invocations in progress on the server at a time.
MaxInvocations == 2

\* ------------------------------------------------------- program constants
\* scored.slice(0, 5)
TopK == 5
\* for (let attempt = 1; attempt <= 2; attempt++)
MaxAttempts == 2

\* ---------------------------------------------------------------- strings
\* Characters matched by \s in the inputs of the model.
Whitespace == {" ", "\t"}
\* Non-whitespace characters of the inputs.
Letters == {"a", "b"}
Chars == Letters \cup Whitespace

Min(a, b) == IF a < b THEN a ELSE b

\* All sequences over S of length at most n.
SeqsUpTo(S, n) == UNION {[1..k -> S] : k \in 0..n}

\* All orders of the elements of S, as sequences.
RECURSIVE OrdersOf(_)
OrdersOf(S) ==
    IF S = {} THEN {<<>>}
    ELSE UNION {{<<x>> \o o : o \in OrdersOf(S \ {x})} : x \in S}

\* String.prototype.trim(): drop leading and trailing whitespace.
RECURSIVE TrimLeft(_)
TrimLeft(s) ==
    IF s = <<>> THEN <<>>
    ELSE IF Head(s) \in Whitespace THEN TrimLeft(Tail(s)) ELSE s

RECURSIVE TrimRight(_)
TrimRight(s) ==
    IF s = <<>> THEN <<>>
    ELSE IF s[Len(s)] \in Whitespace THEN TrimRight(SubSeq(s, 1, Len(s) - 1)) ELSE s

Trim(s) == TrimRight(TrimLeft(s))

\* text.split(/\s+/): cut at every maximal run of whitespace. A leading or
\* trailing run leaves an empty string at that end, and the empty text
\* yields the one-element list [""].
RECURSIVE SplitFrom(_, _, _)
SplitFrom(s, i, cur) ==
    IF i > Len(s) THEN <<cur>>
    ELSE IF s[i] \in Whitespace
         THEN IF i > 1 /\ s[i - 1] \in Whitespace
              THEN SplitFrom(s, i + 1, cur)
              ELSE <<cur>> \o SplitFrom(s, i + 1, <<>>)
         ELSE SplitFrom(s, i + 1, Append(cur, s[i]))

SplitWhitespace(s) == SplitFrom(s, 1, <<>>)

\* Array.prototype.join(sep) on a list of strings.
RECURSIVE Join(_, _)
Join(parts, sep) ==
    IF parts = <<>> THEN <<>>
    ELSE IF Len(parts) = 1 THEN parts[1]
    ELSE parts[1] \o sep \o Join(Tail(parts), sep)

\* Array.prototype.slice(from, to) with 0-based, end-exclusive indices.
Slice(s, from, to) == SubSeq(s, from + 1, Min(to, Len(s)))

\* ------------------------------------------------------------- chunkText
\* The loop of chunkText: for (i = 0; i < words.length; i += chunkSize)
\* chunks.push(words.slice(i, i + chunkSize).join(" ")).
RECURSIVE ChunkLoop(_, _, _)
ChunkLoop(words, i, chunkSize) ==
    IF i < Len(words)
    THEN <<Join(Slice(words, i, i + chunkSize), <<" ">>)>>
             \o ChunkLoop(words, i + chunkSize, chunkSize)
    ELSE <<>>

chunkText(text, chunkSize) == ChunkLoop(SplitWhitespace(text), 0, chunkSize)

IsBlank(s) == Trim(s) = <<>>
NotBlank(s) == Trim(s) # <<>>

\* allChunks.filter((c) => c.trim() !== "")
RECURSIVE ValidChunks(_)
ValidChunks(chunks) ==
    IF chunks = <<>> THEN <<>>
    ELSE IF NotBlank(Head(chunks))
         THEN <<Head(chunks)>> \o ValidChunks(Tail(chunks))
         ELSE ValidChunks(Tail(chunks))

\* ------------------------------------------------------------ embeddings
\* An embedding as the code holds it: a vector, or undefined (an index past
\* the end of the list the provider returned).
Undefined == [def |-> FALSE, v |-> <<>>]
Some(v) == [def |-> TRUE, v |-> v]

\* chunkEmbeddings[i] with the 0-based index i of Array.prototype.map.
EmbAt(embs, i) == IF i + 1 <= Len(embs) THEN Some(embs[i + 1]) ELSE Undefined

\* texts.map((t) => t.trim()).filter((t) => t !== "")
RECURSIVE TrimmedNonEmpty(_)
TrimmedNonEmpty(texts) ==
    IF texts = <<>> THEN <<>>
    ELSE IF Trim(Head(texts)) # <<>>
         THEN <<Trim(Head(texts))>> \o TrimmedNonEmpty(Tail(texts))
         ELSE TrimmedNonEmpty(Tail(texts))

\* The list embedTexts puts in the request body. src/index.ts trims and
\* filters; the variant sends the texts as given.
EmbedInputVariant(texts) == texts
EmbedInput(v, texts) ==
    IF v = "index" THEN TrimmedNonEmpty(texts) ELSE EmbedInputVariant(texts)

\* Whether embedTexts returns [] without calling the provider. Only
\* src/index.ts has the early return.
EmbedSkipsProvider(v, texts) == v = "index" /\ TrimmedNonEmpty(texts) = <<>>

\* ----------------------------------------------------- cosineSimilarity
\* A score is the exact rational sign(dot) * dot^2 / (normA * normB): the
\* order of two scores is the order of the floating-point cosines, and the
\* square roots never have to be taken.
ZeroScore == [sn |-> 0, d |-> 1]

RECURSIVE DotUpTo(_, _, _)
DotUpTo(a, b, n) == IF n = 0 THEN 0 ELSE a[n] * b[n] + DotUpTo(a, b, n - 1)

Sign(x) == IF x > 0 THEN 1 ELSE IF x < 0 THEN -1 ELSE 0

\* a.length or b.length is read on undefined: a TypeError. The loop test
\* "i < a.length && i < b.length" reads b.length only when a is not empty.
CosineThrows(a, b) == ~a.def \/ (Len(a.v) > 0 /\ ~b.def)

cosineSimilarity(a, b) ==
    LET n == Min(Len(a.v), Len(b.v))
        dot == DotUpTo(a.v, b.v, n)
        normA == DotUpTo(a.v, a.v, n)
        normB == DotUpTo(b.v, b.v, n)
    IN  IF normA = 0 \/ normB = 0 \/ dot = 0 THEN ZeroScore
        ELSE [sn |-> Sign(dot) * dot * dot, d |-> normA * normB]

ScoreLess(x, y) == x.sn * y.d < y.sn * x.d
ScoreEq(x, y) == x.sn * y.d = y.sn * x.d

\* ---------------------------------------------------------------- ranking
\* Array.prototype.sort((a, b) => b.score - a.score): descending by score
\* and stable, so an entry goes behind every entry whose score is not
\* smaller than its own.
\* An unstable sort: an entry goes in front of the entries of equal score.
RECURSIVE InsertByScoreUnstable(_, _)
InsertByScoreUnstable(sorted, x) ==
    IF sorted = <<>> THEN <<x>>
    ELSE IF ~ScoreLess(x.score, Head(sorted).score) THEN <<x>> \o sorted
    ELSE <<Head(sorted)>> \o InsertByScoreUnstable(Tail(sorted), x)

RECURSIVE InsertByScore(_, _)
InsertByScore(sorted, x) ==
    IF sorted = <<>> THEN <<x>>
    ELSE IF ScoreLess(Head(sorted).score, x.score) THEN <<x>> \o sorted
    ELSE <<Head(sorted)>> \o InsertByScore(Tail(sorted), x)

RECURSIVE SortFrom(_, _, _)
SortFrom(entries, k, sorted) ==
    IF k > Len(entries) THEN sorted
    ELSE SortFrom(entries, k + 1, InsertByScore(sorted, entries[k]))

SortByScoreDesc(entries) == SortFrom(entries, 1, <<>>)

\* scored.slice(0, 5)
TopSlice(entries) == Slice(entries, 0, TopK)

\* The score the search handler of src/index.ts gives chunk i:
\* queryEmbedding && chunkEmbeddings[i] ? cosineSimilarity(...) : 0.
SearchScore(qe, ce) == IF qe.def /\ ce.def THEN cosineSimilarity(qe, ce) ELSE ZeroScore

\* validChunks.map((c, i) => ({ c, score })); i is kept with the entry so
\* that properties can name the chunk's place in the document.
ScoredSearch(chunks, qe, embs) ==
    [k \in 1..Len(chunks) |->
        [c |-> chunks[k], score |-> SearchScore(qe, EmbAt(embs, k - 1)), i |-> k]]

\* The unguarded map of the read-webpage handler and of the variant.
ScoredPlain(chunks, qe, embs) ==
    [k \in 1..Len(chunks) |->
        [c |-> chunks[k], score |-> cosineSimilarity(qe, EmbAt(embs, k - 1)), i |-> k]]

\* Whether the unguarded map throws.
ScoringThrows(chunks, qe, embs) ==
    \E k \in 1..Len(chunks) : CosineThrows(qe, EmbAt(embs, k - 1))

\* validChunks.slice(0, 5) of the read-webpage fallback, as entries.
Unranked(chunks) ==
    TopSlice([k \in 1..Len(chunks) |-> [c |-> chunks[k], score |-> ZeroScore, i |-> k]])

\* slice(0, 5) taken before the sort: only the first five chunks of the
\* document compete.
RankSearchSliceFirst(chunks, qe, embs) ==
    SortByScoreDesc(TopSlice(ScoredSearch(chunks, qe, embs)))

RankSearch(chunks, qe, embs) == TopSlice(SortByScoreDesc(ScoredSearch(chunks, qe, embs)))
RankPlain(chunks, qe, embs) == TopSlice(SortByScoreDesc(ScoredPlain(chunks, qe, embs)))

\* The selection of the read-webpage handler of src/index.ts.
RankRead(chunks, qe, embs) ==
    IF qe.def /\ Len(embs) = Len(chunks) THEN RankPlain(chunks, qe, embs)
    ELSE Unranked(chunks)

\* scored.slice(0, 5).map((s) => s.c)
ChunksOf(entries) == [k \in 1..Len(entries) |-> entries[k].c]

\* ---------------------------------------------------------- callJinaApi
JINA_SEARCH_URL == "https://s.jina.ai/"
JINA_GROUNDING_URL == "https://g.jina.ai/"
JINA_READER_URL == "https://r.jina.ai/"
JINA_EMBEDDING_URL == "https://r.jina.ai/v1/embeddings"
\* The second program posts its embedding requests to another host.
JINA_EMBEDDING_URL_VARIANT == "https://api.jina.ai/v1/embeddings"
EmbeddingUrl(v) == IF v = "index" THEN JINA_EMBEDDING_URL ELSE JINA_EMBEDDING_URL_VARIANT
EmbeddingUrls == {JINA_EMBEDDING_URL, JINA_EMBEDDING_URL_VARIANT}

\* How one attempt can fail inside the try block of callJinaApi: fetch
\* rejects, !response.ok, an empty body, JSON.parse throws.
FailKinds == {"network_error", "http_error", "empty_body", "bad_json"}

NoCall ==
    [url |-> "none", input |-> <<>>, attempt |-> 0, status |-> "none", error |-> "none"]

\* callJinaApi entered: attempt 1 is awaiting fetch.
NewCall(url, input) ==
    [url |-> url, input |-> input, attempt |-> 1, status |-> "inflight", error |-> "none"]

\* The loop "for (attempt = 1; attempt <= 1; ...)": the catch block rethrows
\* on the first attempt.
RetriesNever(c, outcome) == outcome \in FailKinds /\ c.attempt < 1

\* Whether the catch block of callJinaApi swallows the error and loops.
Retries(c, outcome) == outcome \in FailKinds /\ c.attempt < MaxAttempts

\* One attempt of callJinaApi ends with `outcome`: "ok" returns the parsed
\* JSON, a failure is retried while attempt < 2 and rethrown on attempt 2.
OnAttemptEnd(c, outcome) ==
    IF outcome = "ok" THEN [c EXCEPT !.status = "returned"]
    ELSE IF Retries(c, outcome)
         THEN [c EXCEPT !.attempt = c.attempt + 1]
         ELSE [c EXCEPT !.status = "threw", !.error = outcome]

\* ------------------------------------------------------ response schemas
\* A decoded body is abstracted to the class the checks of the code tell
\* apart: "valid" matches the zod schema; "loose" has the fields the variant
\* tests by hand (data an array, data.content or data.result defined) but
\* not the schema's envelope (code, status, usage); "bad" has neither.
BodyShapes == {"valid", "loose", "bad"}

\* SearchResponseSchema.parse / ReaderResponseSchema.parse /
\* GroundingResponseSchema.parse accept the body; the variant's hand-written
\* test accepts it.
SchemaAcceptsVariant(shape) == shape \in {"valid", "loose"}
SchemaAccepts(v, shape) ==
    IF v = "index" THEN shape = "valid" ELSE SchemaAcceptsVariant(shape)

\* Shapes of an embedding body: "records" is {data: [{embedding}]}, "flat"
\* is {embeddings: [...]}, "nested" is {data: {embeddings: [...]}}, "other"
\* is none of them.
EmbedShapes == {"records", "flat", "nested", "other"}

\* EmbeddingResponseSchema.parse of src/index.ts (the schema module with
\* this schema is not among the sources): the two shapes embedTexts reads.
EmbeddingSchemaAccepts(shape) == shape \in {"records", "flat"}

\* The shapes the variant's embedTexts returns from before it throws
\* "Unexpected response from Jina embedding service".
EmbedAcceptsVariant(shape) == shape \in {"nested", "flat"}

EmbedAccepts(v, shape) ==
    IF v = "index" THEN EmbeddingSchemaAccepts(shape) ELSE EmbedAcceptsVariant(shape)

\* The error the rejected embedding body raises.
EmbedShapeError(v) ==
    IF v = "index" THEN "ZodError"
    ELSE "Unexpected response from Jina embedding service"

\* ------------------------------------------------------------- rendering
\* A text is a sequence of tokens: the literal parts of a template are one
\* token each, text that came from a document is one token per character.
Envelope(text) == [content |-> <<[type |-> "text", text |-> text]>>]
NoResult == [content |-> <<>>]

\* McpContentSchema: a content array of at least one {type: "text", text}.
McpContentValid(r) ==
    /\ Len(r.content) >= 1
    /\ \A k \in 1..Len(r.content) : r.content[k].type = "text"

FailPrefix(t) ==
    IF t = "search" THEN "Search failed: "
    ELSE IF t = "fact-check" THEN "Fact check failed: "
    ELSE "Reading webpage failed: "

\* The catch block of a tool handler: `${prefix}${error.message}`.
FailedEnvelope(t, message) == Envelope(<<FailPrefix(t), message>>)

\* The variant's early return on a body that fails its hand-written test.
UnexpectedFormat == "Unexpected response format from API."

ChunkSeparator == <<"\n\n">>

IndexDigits == <<"1", "2", "3">>

\* The block of a search result whose document has no valid chunk.
EmptyBlock(index, item) ==
    <<"Result ", IndexDigits[index], ":\nTitle: ">> \o item.title
        \o <<"\nURL: ", item.url, "\nRelevant Content: \n\n">>

\* The block of a ranked search result.
RankedBlock(index, item, best) ==
    <<"Result ", IndexDigits[index], ":\nTitle: ">> \o item.title
        \o <<"\nURL: ", item.url, "\nRelevant Content:\n">>
        \o Join(best, ChunkSeparator) \o <<"\n---">>

NoContentExtracted == <<"No content extracted.">>

\* outputText of the read-webpage handler: title || "N/A" and
\* topChunks || "No content extracted.".
ReadText(doc, best) ==
    LET topChunks == Join(best, ChunkSeparator)
    IN  <<"Title: ">> \o (IF doc.title = <<>> THEN <<"N/A">> ELSE doc.title)
          \o <<"\nURL: ", doc.url, "\n\nRelevant Content:\n">>
          \o (IF topChunks = <<>> THEN NoContentExtracted ELSE topChunks)

\* outputText of the fact-check handler.
GroundText(statement, data) ==
    <<"Statement: \"">> \o statement
      \o <<"\"\nResult: ", IF data.result THEN "Likely True" ELSE "Likely False",
           "\nReason: ", IF data.reason = "" THEN "No reason provided." ELSE data.reason,
           "\n\nReferences:\n",
           IF data.references > 0 THEN "Reference 1: ..."
           ELSE "No specific references provided.">>

\* ---------------------------------------------------------------- inputs
\* n one-letter words separated by single spaces.
RECURSIVE WordsText(_)
WordsText(n) ==
    IF n = 0 THEN <<>>
    ELSE IF n = 1 THEN <<"a">>
    ELSE WordsText(n - 1) \o <<" ", IF n % 2 = 0 THEN "b" ELSE "a">>

\* A document of TopK + 1 full chunks, one more than the handlers keep.
LongContent == WordsText(DefaultChunkSize * (TopK + 1))
\* One full chunk and a shorter one.
TwoChunkContent == WordsText(DefaultChunkSize + 1)
\* One full chunk, then a trailing space: split leaves a last empty word,
\* which chunkText turns into a last empty chunk.
TrailingContent == WordsText(DefaultChunkSize) \o <<" ">>

Contents == {<<>>, <<" ", "\t">>, TwoChunkContent, TrailingContent, LongContent}
Titles == {<<>>, <<"T">>}
Queries == {<<" ">>, <<" ", "q">>}

Doc(title, url, content) == [title |-> title, url |-> url, content |-> content]

\* What the reader can return as data.
ReadDocs == {Doc(t, "u", c) : t \in Titles, c \in Contents}

\* What the search can return as data.
SearchResults ==
    {<<>>} \cup {<<Doc(<<"T">>, "u1", c)>> : c \in Contents}
           \cup {<<Doc(<<"T">>, "u1", <<>>), Doc(<<"S">>, "u2", TwoChunkContent)>>,
                 <<Doc(<<"T">>, "u1", TwoChunkContent), Doc(<<"S">>, "u2", TrailingContent)>>}

GroundData == [result : BOOLEAN, reason : {"", "because"}, references : {0, 1}]

\* Vectors the embedding provider answers with.
ChunkVecs == {<<1, 0>>, <<-1, 1>>}
QueryVecs == {<<1, 0>>, <<0, 0>>}

Variants == {"index", "part_001"}
Tools == {"search", "fact-check", "read-webpage"}

\* ------------------------------------------------------------------ state
VARIABLES
    variant,          \* which program runs: src/index.ts or the variant
    pc,               \* where the tool handler is suspended
    tool,             \* the tool invoked
    query,            \* its query (search, read-webpage) or statement
    call,             \* the callJinaApi call the handler awaits
    docs,             \* response.data: the documents of the invocation
    queryEmbedding,   \* queryEmbeddingArray[0]
    chunkEmbeddings,  \* read-webpage: the chunk embeddings
    selected,         \* read-webpage: scored.slice(0, 5)
    tasks,            \* search: one async callback of Promise.all per result
    result,           \* what the handler returned
    stats,            \* embedding work done by the invocation so far
    ctText,           \* chunkText harness: the text argument
    ctSize,           \* chunkText harness: the chunkSize argument
    ctChunks,         \* chunkText harness: the value returned
    ctPc,             \* chunkText harness: "ready", "returned", or "off"
    rank,             \* ranking harness: the inputs and the two outputs
    env,              \* process.env.JINA_API_KEY: "absent", "empty" or "set"
    proc,             \* how far the module has run, or "off"
    transports,       \* the own keys of the transports lookup object
    sse,              \* per session: its SSE response and its server.connect
    serverTransport,  \* the transport the one McpServer is connected to
    invs,             \* the tool invocations the server is running
    lastPost,         \* the last POST /messages and its answer
    lastDelivery      \* the last tool result sent, and on which session

vars == <<variant, pc, tool, query, call, docs, queryEmbedding, chunkEmbeddings,
          selected, tasks, result, stats, ctText, ctSize, ctChunks, ctPc, rank,
          env, proc, transports, sse, serverTransport, invs, lastPost,
          lastDelivery>>

\* The state of the HTTP server and of the process start.
serverVars == <<env, proc, transports, sse, serverTransport, invs, lastPost,
                lastDelivery>>

\* The state of one tool handler.
handlerVars == <<variant, pc, tool, query, call, docs, queryEmbedding,
                 chunkEmbeddings, selected, tasks, result, stats>>

harness == <<ctText, ctSize, ctChunks, ctPc, rank, serverVars>>

NoStats == [queryEmbeds |-> 0, queryRequests |-> 0, chunkRequests |-> 0]

\* The handler-local state as one value, so that the code after an await can
\* be written as a function from state to state.
Local ==
    [pc |-> pc, call |-> call, docs |-> docs, queryEmbedding |-> queryEmbedding,
     chunkEmbeddings |-> chunkEmbeddings, selected |-> selected, tasks |-> tasks,
     result |-> result, stats |-> stats]

Become(st) ==
    /\ pc' = st.pc
    /\ call' = st.call
    /\ docs' = st.docs
    /\ queryEmbedding' = st.queryEmbedding
    /\ chunkEmbeddings' = st.chunkEmbeddings
    /\ selected' = st.selected
    /\ tasks' = st.tasks
    /\ result' = st.result
    /\ stats' = st.stats

Fresh ==
    [pc |-> "idle", call |-> NoCall, docs |-> <<>>, queryEmbedding |-> Undefined,
     chunkEmbeddings |-> <<>>, selected |-> <<>>, tasks |-> <<>>,
     result |-> NoResult, stats |-> NoStats]

\* A return statement of the handler.
Return(st, text) == [st EXCEPT !.pc = "done", !.result = Envelope(text)]

\* The handler without its try/catch: the error leaves the handler and no
\* envelope is returned.
ThrowUncaught(st, message) == [st EXCEPT !.pc = "done", !.result = NoResult]

\* An error reaches the catch block of the handler.
Throw(st, message) == [st EXCEPT !.pc = "done", !.result = FailedEnvelope(tool, message)]

\* ---------------------------------------------------- search: the fan-out
\* The chunks a handler embeds and ranks for a document. src/index.ts drops
\* the chunks that are empty after trimming; the variant keeps them all.
DocChunksVariant(item) == chunkText(item.content, DefaultChunkSize)
DocChunks(v, item) ==
    IF v = "index" THEN ValidChunks(chunkText(item.content, DefaultChunkSize))
    ELSE DocChunksVariant(item)

\* settledAt tells the callbacks that settled on an answer of the provider
\* apart by the order in which they did; 0 is a callback that never awaited.
NoTask ==
    [chunks |-> <<>>, call |-> NoCall, state |-> "resolved", error |-> "none",
     embeddings |-> <<>>, selected |-> <<>>, block |-> <<>>, settledAt |-> 0]

\* The place of the next callback to settle.
NextSettled(ts) == 1 + Cardinality({j \in 1..Len(ts) : ts[j].settledAt > 0})

\* The async callback of Promise.all once its chunk embeddings are there:
\* score, sort, slice, render. In the variant the unguarded
\* cosineSimilarity can throw, which rejects the callback.
CompleteTask(v, task, index, item, qe, embs) ==
    IF v = "index"
    THEN LET best == RankSearch(task.chunks, qe, embs)
         IN  [task EXCEPT !.state = "resolved", !.embeddings = embs, !.selected = best,
                          !.block = RankedBlock(index, item, ChunksOf(best))]
    ELSE IF ScoringThrows(task.chunks, qe, embs)
         THEN [task EXCEPT !.state = "rejected", !.embeddings = embs,
                           !.error = "TypeError"]
         ELSE LET best == RankPlain(task.chunks, qe, embs)
              IN  [task EXCEPT !.state = "resolved", !.embeddings = embs,
                               !.selected = best,
                               !.block = RankedBlock(index, item, ChunksOf(best))]

\* The async callback of Promise.all up to its first await.
StartTask(v, index, item, qe) ==
    LET chunks == DocChunks(v, item)
        task == [NoTask EXCEPT !.chunks = chunks]
    IN  IF v = "index" /\ Len(chunks) = 0
        THEN [task EXCEPT !.block = EmptyBlock(index, item)]
        ELSE IF EmbedSkipsProvider(v, chunks)
             THEN CompleteTask(v, task, index, item, qe, <<>>)
             ELSE [task EXCEPT !.state = "pending",
                               !.call = NewCall(EmbeddingUrl(v), EmbedInput(v, chunks))]

Pending(ts) == {k \in 1..Len(ts) : ts[k].state = "pending"}
Rejected(ts) == {k \in 1..Len(ts) : ts[k].state = "rejected"}

\* The blocks pushed to a shared list as the callbacks settle, instead of
\* the array Promise.all resolves to: the blocks come in settling order.
CombinedContentAsSettled(ts) ==
    LET o == CHOOSE o \in OrdersOf(1..Len(ts)) :
                 \A i, j \in 1..Len(ts) :
                     i < j => \/ ts[o[i]].settledAt < ts[o[j]].settledAt
                              \/ /\ ts[o[i]].settledAt = ts[o[j]].settledAt
                                 /\ o[i] < o[j]
    IN  Join([k \in 1..Len(ts) |-> ts[o[k]].block], <<"\n\n">>)

\* processed.join("\n\n")
CombinedContent(ts) == Join([k \in 1..Len(ts) |-> ts[k].block], <<"\n\n">>)

\* Promise.allSettled in place of Promise.all: a rejected callback is not
\* noticed and its block is rendered as it stands.
SettleAllIgnoringRejections(st) ==
    IF {k \in 1..Len(st.tasks) : st.tasks[k].state = "pending"} = {}
    THEN Return(st, Join([k \in 1..Len(st.tasks) |-> st.tasks[k].block], <<"\n\n">>))
    ELSE [st EXCEPT !.pc = "search_fanout"]

\* await Promise.all(...): rejects with the first rejection, resolves when
\* every callback has resolved, and otherwise keeps the handler waiting.
SettleAll(st) ==
    IF Rejected(st.tasks) # {}
    THEN Throw(st, st.tasks[CHOOSE k \in Rejected(st.tasks) : TRUE].error)
    ELSE IF Pending(st.tasks) = {} THEN Return(st, CombinedContent(st.tasks))
    ELSE [st EXCEPT !.pc = "search_fanout"]

\* response.data.map(async (item, index) => ...): every callback runs to
\* its first await, in the order of the result list.
FanOut(st) ==
    LET ts == [k \in 1..Len(st.docs) |->
                  StartTask(variant, k, st.docs[k], st.queryEmbedding)]
    IN  SettleAll([st EXCEPT !.tasks = ts,
                             !.stats.chunkRequests = Cardinality(Pending(ts))])

\* ------------------------------------------------- read-webpage: the end
\* The code of the read-webpage handler after both embeddings are there.
FinishRead(st) ==
    LET doc == st.docs[1]
        chunks == DocChunks(variant, doc)
    IN  IF variant = "index"
        THEN LET best == RankRead(chunks, st.queryEmbedding, st.chunkEmbeddings)
             IN  Return([st EXCEPT !.selected = best], ReadText(doc, ChunksOf(best)))
        ELSE IF ScoringThrows(chunks, st.queryEmbedding, st.chunkEmbeddings)
             THEN Throw(st, "TypeError")
             ELSE LET best == RankPlain(chunks, st.queryEmbedding, st.chunkEmbeddings)
                  IN  Return([st EXCEPT !.selected = best],
                             ReadText(doc, ChunksOf(best)))

\* ------------------------------------------------- embedding the query
\* What the handler does once queryEmbedding is assigned.
AfterQueryEmbedding(st) == IF tool = "search" THEN FanOut(st) ELSE FinishRead(st)

\* The text whose embedding is the query embedding. src/index.ts trims the
\* query and, in read-webpage, falls back to the title; the variant passes
\* the query as given.
QueryText(v, t, q, st) ==
    IF v = "index"
    THEN IF t = "read-webpage" /\ Trim(q) = <<>> THEN st.docs[1].title ELSE Trim(q)
    ELSE q

\* await embedTexts([queryText]) up to its await.
EmbedQuery(st, nextPc) ==
    LET text == QueryText(variant, tool, query, st)
        st1 == [st EXCEPT !.stats.queryEmbeds = @ + 1]
    IN  IF EmbedSkipsProvider(variant, <<text>>)
        THEN AfterQueryEmbedding([st1 EXCEPT !.queryEmbedding = Undefined])
        ELSE [st1 EXCEPT !.pc = nextPc,
                         !.call = NewCall(EmbeddingUrl(variant), EmbedInput(variant, <<text>>)),
                         !.stats.queryRequests = @ + 1]

\* ------------------------------------------------ the handlers' code
\* read-webpage after await embedTexts(validChunks).
AfterChunkEmbeddings(st, embs) ==
    EmbedQuery([st EXCEPT !.chunkEmbeddings = embs], "read_embed_query")

\* The body that fails the variant's hand-written test is answered with an
\* early return; in src/index.ts the zod parse throws into the catch block.
RejectBody(st) ==
    IF variant = "index" THEN Throw(st, "ZodError")
    ELSE Return(st, <<FailPrefix(tool), UnexpectedFormat>>)

\* The search handler from the answer of searchJina to its next await.
AfterSearch(st, shape, data) ==
    IF ~SchemaAccepts(variant, shape) THEN RejectBody(st)
    ELSE IF Len(data) = 0 THEN Return(st, <<"No search results found.">>)
    ELSE EmbedQuery([st EXCEPT !.docs = data], "search_embed_query")

\* The fact-check handler from the answer of groundJina to its return.
AfterGround(st, shape, data) ==
    IF ~SchemaAccepts(variant, shape) THEN RejectBody(st)
    ELSE Return(st, GroundText(query, data))

\* The read-webpage handler from the answer of readJina to its next await.
AfterRead(st, shape, doc) ==
    IF ~SchemaAccepts(variant, shape) THEN RejectBody(st)
    ELSE LET chunks == DocChunks(variant, doc)
             st1 == [st EXCEPT !.docs = <<doc>>]
         IN  IF variant = "index" /\ Len(chunks) = 0
             THEN Return(st1, ReadText(doc, <<>>))
             ELSE IF EmbedSkipsProvider(variant, chunks)
                  THEN AfterChunkEmbeddings(st1, <<>>)
                  ELSE [st1 EXCEPT !.pc = "read_embed_chunks",
                                   !.call = NewCall(EmbeddingUrl(variant),
                                                    EmbedInput(variant, chunks)),
                                   !.stats.chunkRequests = @ + 1]

\* embedTexts after the answer of the provider: validate, then unwrap.
AfterEmbed(st, shape, vectors) ==
    IF ~EmbedAccepts(variant, shape) THEN Throw(st, EmbedShapeError(variant))
    ELSE IF st.pc = "read_embed_chunks" THEN AfterChunkEmbeddings(st, vectors)
    ELSE AfterQueryEmbedding([st EXCEPT !.queryEmbedding = EmbAt(vectors, 0)])

FetchPc(t) ==
    IF t = "search" THEN "search_fetch"
    ELSE IF t = "fact-check" THEN "ground_fetch" ELSE "read_fetch"

UrlOf(t) ==
    IF t = "search" THEN JINA_SEARCH_URL
    ELSE IF t = "fact-check" THEN JINA_GROUNDING_URL ELSE JINA_READER_URL

MainAwaits ==
    {"search_fetch", "ground_fetch", "read_fetch", "search_embed_query",
     "read_embed_query", "read_embed_chunks"}

\* ---------------------------------------------------------------- actions
\* A tool is invoked: the handler runs to the fetch of its first call. No
\* handler state outlives an invocation (every variable below is a local of
\* the handler), so a behaviour follows one invocation from the fresh state.
Invoke(t, q) ==
    /\ pc = "idle"
    /\ tool' = t
    /\ query' = q
    /\ Become([Fresh EXCEPT !.pc = FetchPc(t), !.call = NewCall(UrlOf(t), <<>>)])
    /\ UNCHANGED <<variant, harness>>

\* An attempt of the awaited callJinaApi call fails.
MainFail(kind) ==
    /\ pc \in MainAwaits
    /\ call.status = "inflight"
    /\ LET c == OnAttemptEnd(call, kind)
       IN  Become(IF c.status = "threw" THEN Throw([Local EXCEPT !.call = NoCall], c.error)
                  ELSE [Local EXCEPT !.call = c])
    /\ UNCHANGED <<variant, tool, query, harness>>

\* The search provider answers 200 with a JSON body.
SearchResponds(shape, data) ==
    /\ pc = "search_fetch"
    /\ call.status = "inflight"
    /\ Become(LET c == OnAttemptEnd(call, "ok")
              IN  IF c.status = "returned"
                  THEN AfterSearch([Local EXCEPT !.call = NoCall], shape, data)
                  ELSE [Local EXCEPT !.call = c])
    /\ UNCHANGED <<variant, tool, query, harness>>

\* The grounding provider answers 200 with a JSON body.
GroundResponds(shape, data) ==
    /\ pc = "ground_fetch"
    /\ call.status = "inflight"
    /\ Become(LET c == OnAttemptEnd(call, "ok")
              IN  IF c.status = "returned"
                  THEN AfterGround([Local EXCEPT !.call = NoCall], shape, data)
                  ELSE [Local EXCEPT !.call = c])
    /\ UNCHANGED <<variant, tool, query, harness>>

\* The reader answers 200 with a JSON body.
ReadResponds(shape, doc) ==
    /\ pc = "read_fetch"
    /\ call.status = "inflight"
    /\ Become(LET c == OnAttemptEnd(call, "ok")
              IN  IF c.status = "returned"
                  THEN AfterRead([Local EXCEPT !.call = NoCall], shape, doc)
                  ELSE [Local EXCEPT !.call = c])
    /\ UNCHANGED <<variant, tool, query, harness>>

\* The embedding provider answers the awaited embedding call.
EmbedResponds(shape, vectors) ==
    /\ pc \in {"search_embed_query", "read_embed_query", "read_embed_chunks"}
    /\ call.status = "inflight"
    /\ Become(LET c == OnAttemptEnd(call, "ok")
              IN  IF c.status = "returned"
                  THEN AfterEmbed([Local EXCEPT !.call = NoCall], shape, vectors)
                  ELSE [Local EXCEPT !.call = c])
    /\ UNCHANGED <<variant, tool, query, harness>>

\* The handler's view of a callback that settled: Promise.all is consulted
\* only while the handler still awaits it.
TaskSettled(ts) ==
    LET st == [Local EXCEPT !.tasks = ts]
    IN  IF pc = "search_fanout" THEN SettleAll(st) ELSE st

\* An attempt of the embedding call of callback k fails.
TaskFail(k, kind) ==
    /\ k \in 1..Len(tasks)
    /\ tasks[k].state = "pending"
    /\ LET c == OnAttemptEnd(tasks[k].call, kind)
           t1 == IF c.status = "threw"
                 THEN [tasks[k] EXCEPT !.call = NoCall, !.state = "rejected",
                                       !.error = c.error,
                                       !.settledAt = NextSettled(tasks)]
                 ELSE [tasks[k] EXCEPT !.call = c]
       IN  Become(TaskSettled([tasks EXCEPT ![k] = t1]))
    /\ UNCHANGED <<variant, tool, query, harness>>

\* The embedding provider answers the embedding call of callback k.
TaskResponds(k, shape, vectors) ==
    /\ k \in 1..Len(tasks)
    /\ tasks[k].state = "pending"
    /\ LET c == OnAttemptEnd(tasks[k].call, "ok")
           t0 == [tasks[k] EXCEPT !.call = NoCall, !.settledAt = NextSettled(tasks)]
           t1 == IF c.status # "returned" THEN [tasks[k] EXCEPT !.call = c]
                 ELSE IF ~EmbedAccepts(variant, shape)
                 THEN [t0 EXCEPT !.state = "rejected", !.error = EmbedShapeError(variant)]
                 ELSE CompleteTask(variant, t0, k, docs[k], queryEmbedding, vectors)
       IN  Become(TaskSettled([tasks EXCEPT ![k] = t1]))
    /\ UNCHANGED <<variant, tool, query, harness>>

\* The vector lists the provider can answer a chunk request with: up to
\* one more vector than texts asked for. A body of a rejected shape carries
\* none that matter.
ChunkAnswers(shape, input) ==
    IF EmbedAccepts(variant, shape) THEN SeqsUpTo(ChunkVecs, Len(input) + 1) ELSE {<<>>}

\* The vector lists the provider can answer the query request with; only
\* element [0] of the answer is read.
QueryAnswers(shape) ==
    IF EmbedAccepts(variant, shape) THEN SeqsUpTo(QueryVecs, 1) ELSE {<<>>}

MainAnswers(shape) ==
    IF pc = "read_embed_chunks" THEN ChunkAnswers(shape, call.input)
    ELSE QueryAnswers(shape)

InitCommon ==
    /\ tool = "none"
    /\ query = <<>>
    /\ pc = Fresh.pc
    /\ call = Fresh.call
    /\ docs = Fresh.docs
    /\ queryEmbedding = Fresh.queryEmbedding
    /\ chunkEmbeddings = Fresh.chunkEmbeddings
    /\ selected = Fresh.selected
    /\ tasks = Fresh.tasks
    /\ result = Fresh.result
    /\ stats = Fresh.stats

RankOff == [pc |-> "off", vecs |-> <<>>, order |-> <<>>, first |-> <<>>, second |-> <<>>]

ChunkHarnessOff == ctText = <<>> /\ ctSize = 1 /\ ctChunks = <<>> /\ ctPc = "off"

\* The sessions of the model: transport.sessionId is a fresh UUID per GET
\* /sse, so a session id is used once.
SessionIds == {"s1", "s2"}

\* Property names every object inherits from Object.prototype: looked up
\* on the transports object they yield a value although no session put
\* them there.
ObjectPrototypeKeys == {"constructor"}

NoSession == [res |-> "none", connect |-> "none"]
NoInvocation == [state |-> "none", from |-> "none"]
NoDelivery == [from |-> "none", on |-> "none", fromOpen |-> FALSE]
NoPost == [param |-> "none", known |-> FALSE, status |-> 0, handed |-> FALSE]

ServerIdle ==
    /\ transports = {}
    /\ sse = [sid \in SessionIds |-> NoSession]
    /\ serverTransport = "none"
    /\ invs = [i \in 1..MaxInvocations |-> NoInvocation]
    /\ lastPost = NoPost
    /\ lastDelivery = NoDelivery

ServerOff == env = "set" /\ proc = "off" /\ ServerIdle

HarnessOff == ChunkHarnessOff /\ rank = RankOff /\ ServerOff

\* src/index.ts alone.
Init == variant = "index" /\ InitCommon /\ HarnessOff

\* Either program.
InitAll == variant \in Variants /\ InitCommon /\ HarnessOff

Next ==
    \/ \E t \in Tools, q \in Queries : Invoke(t, q)
    \/ \E kind \in FailKinds : MainFail(kind)
    \/ \E shape \in BodyShapes, data \in SearchResults : SearchResponds(shape, data)
    \/ \E shape \in BodyShapes, data \in GroundData : GroundResponds(shape, data)
    \/ \E shape \in BodyShapes, doc \in ReadDocs : ReadResponds(shape, doc)
    \/ \E shape \in EmbedShapes :
          \E vectors \in MainAnswers(shape) :
              EmbedResponds(shape, vectors)
    \/ \E k \in 1..Len(tasks), kind \in FailKinds : TaskFail(k, kind)
    \/ \E k \in 1..Len(tasks), shape \in EmbedShapes :
          \E vectors \in ChunkAnswers(shape, tasks[k].call.input) :
              TaskResponds(k, shape, vectors)

Spec == Init /\ [][Next]_vars
SpecAll == InitAll /\ [][Next]_vars

\* ------------------------------------------------- the chunkText harness
\* chunkText is the same function in both programs; it is applied to every
\* text of at most MaxTextLen characters and every chunk size up to
\* MaxChunkSize.
InitChunk ==
    /\ variant \in Variants
    /\ InitCommon
    /\ ctText \in SeqsUpTo(Chars, MaxTextLen)
    /\ ctSize \in 1..MaxChunkSize
    /\ ctChunks = <<>>
    /\ ctPc = "ready"
    /\ rank = RankOff
    /\ ServerOff

ApplyChunkText ==
    /\ ctPc = "ready"
    /\ ctChunks' = chunkText(ctText, ctSize)
    /\ ctPc' = "returned"
    /\ UNCHANGED <<variant, pc, tool, query, call, docs, queryEmbedding,
                   chunkEmbeddings, selected, tasks, result, stats, ctText, ctSize, rank,
                   serverVars>>

NextChunk == ApplyChunkText

SpecChunk == InitChunk /\ [][NextChunk]_vars

\* --------------------------------------------------- the ranking harness
\* The scoring, sorting and slicing of the two handlers of src/index.ts,
\* applied to the same (chunk, embedding) pairs in two orders: the pairs
\* as numbered, and the pairs in a permuted order.
\* The embeddings of the harness. Against RankQuery the first two score
\* the same and the third scores less.
RankVecs == <<<<1, 0>>, <<2, 0>>, <<0, 1>>>>
RankQuery == <<1, 0>>
RankChunkNames == <<"1", "2", "3", "4", "5", "6", "7", "8">>

\* Chunk i of the harness: a one-word text that names i.
RankChunk(i) == <<RankChunkNames[i]>>

\* The chunks and their embeddings as submitted in the given order: place
\* j holds pair order[j].
ChunksIn(order) == [j \in 1..Len(order) |-> RankChunk(order[j])]
VecsIn(vecs, order) == [j \in 1..Len(order) |-> RankVecs[vecs[order[j]]]]

\* The text both handlers make of the chunks they selected:
\* scored.slice(0, 5).map((s) => s.c).join("\n\n").
TopChunksText(sel) == Join(ChunksOf(sel), ChunkSeparator)

\* What the search handler and the read-webpage handler output for the
\* pairs in the given order.
RankedOutputs(vecs, order) ==
    [search |-> TopChunksText(RankSearch(ChunksIn(order), Some(RankQuery),
                                         VecsIn(vecs, order))),
     read |-> TopChunksText(RankRead(ChunksIn(order), Some(RankQuery),
                                     VecsIn(vecs, order)))]

\* Every set of pairs occurs up to the numbering of its chunks, so the
\* pairs are numbered with their embeddings in the order of RankVecs.
InitRank ==
    /\ variant = "index"
    /\ InitCommon
    /\ ChunkHarnessOff
    /\ ServerOff
    /\ \E n \in 0..MaxRankLen :
          \E vecs \in [1..n -> 1..Len(RankVecs)] :
              /\ \A i \in 1..(n - 1) : vecs[i] <= vecs[i + 1]
              /\ \E order \in OrdersOf(1..n) :
                    rank = [pc |-> "ready", vecs |-> vecs, order |-> order,
                            first |-> <<>>, second |-> <<>>]

ApplyRank ==
    /\ rank.pc = "ready"
    /\ rank' = [rank EXCEPT !.pc = "returned",
                            !.first = RankedOutputs(rank.vecs, [i \in 1..Len(rank.vecs) |-> i]),
                            !.second = RankedOutputs(rank.vecs, rank.order)]
    /\ UNCHANGED <<variant, pc, tool, query, call, docs, queryEmbedding,
                   chunkEmbeddings, selected, tasks, result, stats,
                   ctText, ctSize, ctChunks, ctPc, serverVars>>

NextRank == ApplyRank

SpecRank == InitRank /\ [][NextRank]_vars

\* ------------------------------------------- process start and SSE server
\* A credential check that only logs the error and goes on.
CredentialCheckLogsOnly(e) == "configured"

\* if (!JINA_API_KEY) { ...; process.exit(1); }: an unset and an empty
\* variable are both falsy.
CredentialCheck(e) == IF e = "set" THEN "configured" ELSE "exited"

\* The module runs from its first line to the credential check.
CheckCredential ==
    /\ proc = "starting"
    /\ proc' = CredentialCheck(env)
    /\ UNCHANGED <<handlerVars, ctText, ctSize, ctChunks, ctPc, rank, env,
                   transports, sse, serverTransport, invs, lastPost, lastDelivery>>

\* new McpServer(...) and the three server.tool(...) registrations.
RegisterTools ==
    /\ proc = "configured"
    /\ proc' = "registered"
    /\ UNCHANGED <<handlerVars, ctText, ctSize, ctChunks, ctPc, rank, env,
                   transports, sse, serverTransport, invs, lastPost, lastDelivery>>

\* express(), the routes, app.listen(port).
Listen ==
    /\ proc = "registered"
    /\ proc' = "listening"
    /\ UNCHANGED <<handlerVars, ctText, ctSize, ctChunks, ctPc, rank, env,
                   transports, sse, serverTransport, invs, lastPost, lastDelivery>>

\* server.connect(transport) on the one McpServer of the module: the
\* protocol object of the SDK holds a single transport, and connect
\* replaces it.
ServerConnect(current, sid) == sid

\* GET /sse up to "await server.connect(transport)": a transport with a
\* fresh session id is stored, the close listener is registered, connect
\* is called.
SseConnect(sid) ==
    /\ proc = "listening"
    /\ sse[sid].res = "none"
    /\ transports' = transports \cup {sid}
    /\ sse' = [sse EXCEPT ![sid] = [res |-> "open", connect |-> "pending"]]
    /\ serverTransport' = ServerConnect(serverTransport, sid)
    /\ UNCHANGED <<handlerVars, ctText, ctSize, ctChunks, ctPc, rank, env, proc,
                   invs, lastPost, lastDelivery>>

\* await server.connect(transport) resolves.
ConnectResolves(sid) ==
    /\ proc = "listening"
    /\ sse[sid].connect = "pending"
    /\ sse' = [sse EXCEPT ![sid].connect = "connected"]
    /\ UNCHANGED <<handlerVars, ctText, ctSize, ctChunks, ctPc, rank, env, proc,
                   transports, serverTransport, invs, lastPost, lastDelivery>>

\* await server.connect(transport) rejects: the catch block ends the
\* response unless it is closed already and deletes the session.
ConnectFails(sid) ==
    /\ proc = "listening"
    /\ sse[sid].connect = "pending"
    /\ sse' = [sse EXCEPT ![sid] = [res |-> "closed", connect |-> "failed"]]
    /\ transports' = transports \ {sid}
    /\ UNCHANGED <<handlerVars, ctText, ctSize, ctChunks, ctPc, rank, env, proc,
                   serverTransport, invs, lastPost, lastDelivery>>

\* The client goes away: res emits "close", the listener deletes the
\* session. The transport reports the close to the protocol object, which
\* drops the transport it holds.
SseClose(sid) ==
    /\ proc = "listening"
    /\ sse[sid].res = "open"
    /\ sse' = [sse EXCEPT ![sid].res = "closed"]
    /\ transports' = transports \ {sid}
    /\ serverTransport' = "none"
    /\ UNCHANGED <<handlerVars, ctText, ctSize, ctChunks, ctPc, rank, env, proc,
                   invs, lastPost, lastDelivery>>

\* transports[sessionId]: the session's transport, a value inherited from
\* Object.prototype, or undefined.
Lookup(map, key) ==
    IF key \in map THEN "transport"
    ELSE IF key \in ObjectPrototypeKeys THEN "inherited"
    ELSE "undefined"

\* What a POST /messages can name as sessionId: nothing, a session, an
\* id no session has, a property name of Object.prototype.
PostParams == {"", "unknown"} \cup SessionIds \cup ObjectPrototypeKeys

FreeInvocations == {i \in 1..MaxInvocations : invs[i].state = "none"}

\* POST /messages without sessionId: the handler sends 400 and throws the
\* response object out of the async route handler. The rejected promise
\* is either passed to the router's error handling or left unhandled,
\* which ends the process.
PostWithoutSession(goesOn) ==
    /\ proc = "listening"
    /\ lastPost' = [param |-> "", known |-> FALSE, status |-> 400, handed |-> FALSE]
    /\ IF goesOn
       THEN UNCHANGED <<proc, transports, sse, serverTransport, invs>>
       ELSE /\ proc' = "crashed"
            /\ transports' = {}
            /\ sse' = [sid \in SessionIds |->
                          IF sse[sid].res = "open" THEN [sse[sid] EXCEPT !.res = "closed"]
                          ELSE sse[sid]]
            /\ serverTransport' = "none"
            /\ invs' = [i \in 1..MaxInvocations |-> NoInvocation]
    /\ UNCHANGED <<handlerVars, ctText, ctSize, ctChunks, ctPc, rank, env, lastDelivery>>

\* POST /messages?sessionId=param with a transport found: the request is
\* handed to transport.handlePostMessage, which answers 202 and passes the
\* message to the server, or throws before sending (then 500). A tools/call
\* message starts a tool handler.
PostToSession(param, outcome) ==
    /\ proc = "listening"
    /\ param # ""
    /\ Lookup(transports, param) = "transport"
    /\ \/ /\ outcome = "call"
          /\ FreeInvocations # {}
          /\ LET i == CHOOSE i \in FreeInvocations : \A j \in FreeInvocations : i <= j
             IN  invs' = [invs EXCEPT ![i] = [state |-> "running", from |-> param]]
          /\ lastPost' = [param |-> param, known |-> TRUE, status |-> 202, handed |-> TRUE]
       \/ /\ outcome = "other"
          /\ lastPost' = [param |-> param, known |-> TRUE, status |-> 202, handed |-> TRUE]
          /\ UNCHANGED invs
       \/ /\ outcome = "throws"
          /\ lastPost' = [param |-> param, known |-> TRUE, status |-> 500, handed |-> TRUE]
          /\ UNCHANGED invs
    /\ UNCHANGED <<handlerVars, ctText, ctSize, ctChunks, ctPc, rank, env, proc,
                   transports, sse, serverTransport, lastDelivery>>

\* POST /messages?sessionId=param with no transport of that session: an
\* inherited value is truthy, so the call of its handlePostMessage throws a
\* TypeError inside the try block and the catch block answers 500;
\* undefined is answered 404.
PostToNoSession(param) ==
    /\ proc = "listening"
    /\ param # ""
    /\ Lookup(transports, param) # "transport"
    /\ lastPost' = [param |-> param, known |-> FALSE,
                    status |-> IF Lookup(transports, param) = "inherited" THEN 500 ELSE 404,
                    handed |-> FALSE]
    /\ UNCHANGED <<handlerVars, ctText, ctSize, ctChunks, ctPc, rank, env, proc,
                   transports, sse, serverTransport, invs, lastDelivery>>

\* A tool handler returns and the server sends the result: on the
\* transport the protocol object holds, if its response is still open.
\* The handler itself works on its locals alone (handlerVars).
ToolReturns(i) ==
    /\ proc = "listening"
    /\ invs[i].state = "running"
    /\ invs' = [invs EXCEPT ![i] = NoInvocation]
    /\ lastDelivery' =
          [from |-> invs[i].from,
           fromOpen |-> sse[invs[i].from].res = "open",
           on |-> IF serverTransport # "none" /\ sse[serverTransport].res = "open"
                  THEN serverTransport ELSE "none"]
    /\ UNCHANGED <<handlerVars, ctText, ctSize, ctChunks, ctPc, rank, env, proc,
                   transports, sse, serverTransport, lastPost>>

\* The process is started with or without the credential.
InitServer ==
    /\ variant \in Variants
    /\ InitCommon
    /\ ChunkHarnessOff
    /\ rank = RankOff
    /\ env \in {"absent", "empty", "set"}
    /\ proc = "starting"
    /\ ServerIdle

NextServer ==
    \/ CheckCredential
    \/ RegisterTools
    \/ Listen
    \/ \E sid \in SessionIds : SseConnect(sid)
    \/ \E sid \in SessionIds : ConnectResolves(sid)
    \/ \E sid \in SessionIds : ConnectFails(sid)
    \/ \E sid \in SessionIds : SseClose(sid)
    \/ \E goesOn \in BOOLEAN : PostWithoutSession(goesOn)
    \/ \E param \in PostParams, outcome \in {"call", "other", "throws"} :
          PostToSession(param, outcome)
    \/ \E param \in PostParams : PostToNoSession(param)
    \/ \E i \in 1..MaxInvocations : ToolReturns(i)

SpecServer == InitServer /\ [][NextServer]_vars

\* ================================================================ claims

\* C10: chunkText returns an empty sequence when the text contains no words
\* (the empty string or only whitespace), for every chunk size >= 1.
\* The code returns [""] for "" and a whitespace-only chunk for "  ".
C10_NoWordsNoChunks ==
    (ctPc = "returned" /\ IsBlank(ctText)) => ctChunks = <<>>


\* --------------------------------------------------------------------- C1
IsFailure(r) ==
    /\ Len(r.content) = 1
    /\ Len(r.content[1].text) = 2
    /\ r.content[1].text[1] = FailPrefix(tool)

\* C1: every invocation of search, fact-check and read-webpage, whatever
\* the provider calls did (success, terminal error, schema mismatch, empty
\* document), ends with an envelope whose content array has at least one
\* element of type "text"; no invocation ends without one, and there is no
\* result before the handler returns.
C1_EnvelopeAlways ==
    /\ pc = "done" => McpContentValid(result)
    /\ pc # "done" => result = NoResult

\* A schema mismatch in read-webpage ended in a failure envelope.
C1_Witness ==
    /\ pc = "done"
    /\ tool = "read-webpage"
    /\ IsFailure(result)
    /\ result.content[1].text[2] = "ZodError"

\* --------------------------------------------------------------------- C2
EmbedAwaits == {"search_embed_query", "read_embed_query", "read_embed_chunks"}

\* A step in which an embedding request of the invocation fails for good:
\* the second attempt of the awaited embedding call, or of the embedding
\* call of a Promise.all callback, fails.
EmbedFailsForGood ==
    \/ /\ pc \in EmbedAwaits
       /\ call.attempt = MaxAttempts
       /\ \E kind \in FailKinds : MainFail(kind)
    \/ \E k \in 1..Len(tasks) :
          /\ tasks[k].call.attempt = MaxAttempts
          /\ \E kind \in FailKinds : TaskFail(k, kind)

\* The payloads of a document without content: "No content extracted." in
\* read-webpage, a block with an empty Relevant Content section in search.
HasPlaceholder(r) ==
    \E k \in 1..Len(r.content) :
        \E j \in 1..Len(r.content[k].text) :
            r.content[k].text[j] \in {"No content extracted.", "\nRelevant Content: \n\n"}

\* A payload that carries ranked or unranked chunks of a document.
HasRankedContent(r) ==
    \E k \in 1..Len(r.content) :
        \E j \in 1..Len(r.content[k].text) :
            r.content[k].text[j] \in {"\nRelevant Content:\n", "\n\nRelevant Content:\n"}

\* C2: when an embedding request of a search or read-webpage invocation
\* fails on both attempts, the tool returns the failure payload ("Search
\* failed: ..." / "Reading webpage failed: ..."), which is neither the
\* no-content placeholder nor a ranked result, and the payload returned
\* never changes afterwards.
C2_EmbedOutageIsFailure ==
    [][/\ EmbedFailsForGood =>
            /\ pc' = "done"
            /\ IsFailure(result')
            /\ ~HasPlaceholder(result')
            /\ ~HasRankedContent(result')
       /\ pc = "done" => result' = result]_vars

\* A search whose per-document embedding call failed on both attempts has
\* returned the failure payload.
C2_Witness ==
    /\ pc = "done"
    /\ tool = "search"
    /\ \E k \in 1..Len(tasks) : tasks[k].state = "rejected" /\ tasks[k].error \in FailKinds
    /\ IsFailure(result)

\* --------------------------------------------------------------------- C3
NoValidChunks(item) == ValidChunks(chunkText(item.content, DefaultChunkSize)) = <<>>

\* C3: when a document's content yields no chunk that is non-empty after
\* trimming, ranking it makes no embedding call and gives the placeholder:
\* read-webpage returns "No content extracted." without any embedding
\* request; in search the document's callback requests no chunk embedding
\* and resolves to a block with an empty Relevant Content section.
C3_EmptyDocNoEmbedding ==
    /\ (tool = "read-webpage" /\ docs # <<>> /\ NoValidChunks(docs[1])) =>
          /\ stats.chunkRequests = 0
          /\ stats.queryRequests = 0
          /\ call.url \notin EmbeddingUrls
          /\ pc = "done"
          /\ result = Envelope(ReadText(docs[1], <<>>))
          /\ HasPlaceholder(result)
    /\ tool = "search" =>
          \A k \in 1..Len(tasks) :
              NoValidChunks(docs[k]) =>
                  /\ tasks[k].call = NoCall
                  /\ tasks[k].state = "resolved"
                  /\ tasks[k].block = EmptyBlock(k, docs[k])

\* --------------------------------------------------------------------- C4
\* The two policies the spec allows for chunks without a vector: score 0,
\* or drop them before ranking.
ScoreZeroPolicy(chunks, qe, embs) ==
    ChunksOf(TopSlice(SortByScoreDesc(ScoredSearch(chunks, qe, embs))))
DropPolicy(chunks, qe, embs) ==
    ChunksOf(TopSlice(SortByScoreDesc(
        ScoredSearch(SubSeq(chunks, 1, Min(Len(chunks), Len(embs))), qe, embs))))

\* A callback of Promise.all that received its chunk embeddings.
TaskGotEmbeddings(t) ==
    \/ t.state = "resolved" /\ t.chunks # <<>>
    \/ t.state = "rejected" /\ t.error = "TypeError"

\* read-webpage received its chunk embeddings and went on to the query.
ReadGotEmbeddings == tool = "read-webpage" /\ stats.queryEmbeds = 1

\* C4: when the provider returns fewer vectors than valid chunks, the ranker
\* does not raise; it scores the chunks that have a vector and treats the
\* rest under one policy (score 0, or drop), the same in search and in
\* read-webpage; the output never has more chunks than the input.
C4_MismatchOnePolicy ==
    /\ \A k \in 1..Len(tasks) :
          (TaskGotEmbeddings(tasks[k]) /\ Len(tasks[k].embeddings) < Len(tasks[k].chunks)) =>
              /\ tasks[k].state = "resolved"
              /\ Len(tasks[k].selected) <= Len(tasks[k].chunks)
              /\ ChunksOf(tasks[k].selected) \in
                     {ScoreZeroPolicy(tasks[k].chunks, queryEmbedding, tasks[k].embeddings),
                      DropPolicy(tasks[k].chunks, queryEmbedding, tasks[k].embeddings)}
    /\ (/\ ReadGotEmbeddings
        /\ pc = "done"
        /\ queryEmbedding.def
        /\ Len(chunkEmbeddings) < Len(DocChunks(variant, docs[1]))) =>
              /\ ~IsFailure(result)
              /\ Len(selected) <= Len(DocChunks(variant, docs[1]))
              /\ ChunksOf(selected) \in
                     {ScoreZeroPolicy(DocChunks(variant, docs[1]), queryEmbedding, chunkEmbeddings),
                      DropPolicy(DocChunks(variant, docs[1]), queryEmbedding, chunkEmbeddings)}

\* --------------------------------------------------------------------- C5
AnyMainFail == \E kind \in FailKinds : MainFail(kind)
AnyTaskFail(k) == \E kind \in FailKinds : TaskFail(k, kind)

\* An error of callJinaApi (not of a schema or of the ranker) is surfaced.
SurfacesCallError(r) ==
    /\ Len(r.content) = 1
    /\ Len(r.content[1].text) = 2
    /\ r.content[1].text[2] \in FailKinds

\* C5 for the call the handler awaits.
C5_MainCall ==
    /\ call.attempt <= MaxAttempts
    \* a second attempt is made only after a failed first one ...
    /\ (call'.attempt = 2 /\ call # call') =>
          /\ call.attempt = 1
          /\ AnyMainFail
          /\ call' = [call EXCEPT !.attempt = 2]
    \* ... and always after a failed first one, with nothing surfaced
    /\ (call.attempt = 1 /\ AnyMainFail) =>
          /\ call' = [call EXCEPT !.attempt = 2]
          /\ pc' = pc
          /\ result' = NoResult
    \* a success of either attempt ends the call: no further attempt, and no
    \* error of the call surfaced
    /\ (call.status = "inflight" /\ ~AnyMainFail /\ call' # call) =>
          /\ call'.attempt \in {0, 1}
          /\ ~SurfacesCallError(result')
    \* the call's error is surfaced only by the failure of attempt 2
    /\ (call.attempt = 2 /\ AnyMainFail) =>
          /\ pc' = "done"
          /\ SurfacesCallError(result')
          /\ call' = NoCall

\* C5 for the embedding call of each Promise.all callback.
C5_TaskCalls ==
    \A k \in 1..Len(tasks) :
        /\ tasks[k].call.attempt <= MaxAttempts
        /\ (Len(tasks') = Len(tasks) /\ tasks'[k].call.attempt = 2
              /\ tasks'[k].call # tasks[k].call) =>
              /\ tasks[k].call.attempt = 1
              /\ AnyTaskFail(k)
        /\ (tasks[k].call.attempt = 1 /\ AnyTaskFail(k)) =>
              /\ tasks'[k].call = [tasks[k].call EXCEPT !.attempt = 2]
              /\ tasks'[k].state = "pending"
              /\ result' = result
        /\ (tasks[k].call.attempt = 2 /\ AnyTaskFail(k)) =>
              /\ tasks'[k].state = "rejected"
              /\ tasks'[k].error \in FailKinds
        /\ (Len(tasks') = Len(tasks) /\ tasks'[k].state = "rejected"
              /\ tasks[k].state = "pending" /\ tasks'[k].error \in FailKinds) =>
              tasks[k].call.attempt = 2 /\ AnyTaskFail(k)

\* A surfaced error of a call comes from a second attempt that failed.
C5_ErrorOnlyAfterTwo ==
    (result = NoResult /\ SurfacesCallError(result')) =>
        \/ call.attempt = 2 /\ AnyMainFail
        \/ \E k \in 1..Len(tasks) : tasks[k].call.attempt = 2 /\ AnyTaskFail(k)

\* C5: callJinaApi makes at most 2 attempts per call; the second is made if
\* and only if the first failed (network error, non-2xx, empty body,
\* malformed JSON); a success of the first attempt returns without a second
\* request, a success of the second returns with no error surfaced, and the
\* call's error is thrown only after both attempts failed.
C5_AtMostTwoAttempts == [][C5_MainCall /\ C5_TaskCalls /\ C5_ErrorOnlyAfterTwo]_vars

\* The second attempt of an embedding call is in flight.
C5_Witness ==
    /\ call.url \in EmbeddingUrls
    /\ call.attempt = 2
    /\ call.status = "inflight"

\* --------------------------------------------------------------------- C6
\* A step in which a body that fails its schema reaches the program.
SchemaMismatchStep ==
    \/ \E shape \in BodyShapes \ {"valid"} :
          \/ \E data \in SearchResults : SearchResponds(shape, data)
          \/ \E data \in GroundData : GroundResponds(shape, data)
          \/ \E doc \in ReadDocs : ReadResponds(shape, doc)
    \/ \E shape \in {x \in EmbedShapes : ~EmbeddingSchemaAccepts(x)} :
          \E vectors \in MainAnswers(shape) : EmbedResponds(shape, vectors)

\* C6: a response that decodes as JSON but does not match the expected
\* schema (search, read, ground or embed) is a terminal error for the call:
\* the handler ends with its failure payload, no request follows, and
\* nothing of the body reaches the ranker or the formatter.
C6_SchemaMismatchTerminal ==
    [][SchemaMismatchStep =>
          /\ pc' = "done"
          /\ IsFailure(result')
          /\ call' = NoCall
          /\ docs' = docs
          /\ queryEmbedding' = queryEmbedding
          /\ chunkEmbeddings' = chunkEmbeddings]_vars

\* --------------------------------------------------------------------- C7
\* The bodies of the embedding requests in flight.
EmbedInputsInFlight ==
    (IF call.url \in EmbeddingUrls /\ call.status = "inflight" THEN {call.input} ELSE {})
        \cup {tasks[k].call.input : k \in Pending(tasks)}

\* C7: every request sent to the embedding provider has a non-empty input
\* list without an empty or all-whitespace string, and embedTexts called
\* with a list that is empty after trimming and filtering (here: the
\* all-whitespace query) returns without a provider call.
C7_NoBlankEmbedInput ==
    /\ \A input \in EmbedInputsInFlight :
          /\ input # <<>>
          /\ \A j \in 1..Len(input) : NotBlank(input[j])
    /\ (tool = "search" /\ IsBlank(query)) => stats.queryRequests = 0
    /\ (tool = "read-webpage" /\ IsBlank(query) /\ stats.queryEmbeds = 1
          /\ IsBlank(docs[1].title)) => stats.queryRequests = 0

\* --------------------------------------------------------------------- C8
\* The search handler is past the embedding of the query.
PastQueryEmbedding == tool = "search" /\ (pc = "search_fanout" \/ Len(tasks) > 0)

\* The score of an entry, recomputed from the shared query embedding.
ScoreFrom(qe, embs, e) ==
    IF qe.def /\ EmbAt(embs, e.i - 1).def
    THEN cosineSimilarity(qe, EmbAt(embs, e.i - 1)) ELSE ZeroScore

\* C8: in a search over N >= 1 results the query is embedded exactly once
\* (one request to the embedding provider, whatever N), before any
\* per-document chunk embedding is requested, and that one query embedding
\* scores the chunks of all N documents.
C8_QueryEmbeddedExactlyOnce ==
    tool = "search" =>
        /\ stats.queryEmbeds <= 1
        /\ stats.queryRequests <= stats.queryEmbeds
        /\ PastQueryEmbedding => stats.queryRequests = 1
        /\ (stats.chunkRequests > 0 \/ Pending(tasks) # {}) =>
              /\ pc \in {"search_fanout", "done"}
              /\ call = NoCall
        /\ \A k \in 1..Len(tasks) :
              tasks[k].state = "resolved" =>
                  \A j \in 1..Len(tasks[k].selected) :
                      tasks[k].selected[j].score =
                          ScoreFrom(queryEmbedding, tasks[k].embeddings, tasks[k].selected[j])

\* --------------------------------------------------------------------- C9
\* Entry x comes before entry y in a descending stable order.
RanksBefore(x, y) ==
    \/ ScoreLess(y.score, x.score)
    \/ ScoreEq(x.score, y.score) /\ x.i < y.i

\* sel is the first min(TopK, n) of the n chunks in descending order of
\* score with ties in document order; every entry is a chunk of the
\* document with its own score, none twice.
IsTopRanking(sel, chunks, qe, embs) ==
    /\ Len(sel) = Min(TopK, Len(chunks))
    /\ \A j \in 1..Len(sel) :
          /\ sel[j].i \in 1..Len(chunks)
          /\ sel[j].c = chunks[sel[j].i]
          /\ ScoreEq(sel[j].score, ScoreFrom(qe, embs, sel[j]))
    /\ \A j, m \in 1..Len(sel) : j < m => RanksBefore(sel[j], sel[m])
    /\ \A i \in 1..Len(chunks) :
          (\A j \in 1..Len(sel) : sel[j].i # i) =>
              \A j \in 1..Len(sel) :
                  RanksBefore(sel[j],
                              [i |-> i, c |-> chunks[i],
                               score |-> ScoreFrom(qe, embs, [i |-> i])])

\* C9: for a document with n valid chunks whose embeddings were all
\* obtained, the ranked result is exactly the first min(5, n) chunks in
\* descending order of score, ties in document order, nothing padded,
\* duplicated or invented, and it is what the payload shows.
C9_TopFiveStable ==
    /\ \A k \in 1..Len(tasks) :
          (/\ tasks[k].state = "resolved"
           /\ tasks[k].chunks # <<>>
           /\ Len(tasks[k].embeddings) = Len(tasks[k].chunks)) =>
              /\ IsTopRanking(tasks[k].selected, tasks[k].chunks, queryEmbedding,
                              tasks[k].embeddings)
              /\ tasks[k].block = RankedBlock(k, docs[k], ChunksOf(tasks[k].selected))
    /\ (/\ ReadGotEmbeddings
        /\ pc = "done"
        /\ ~IsFailure(result)
        /\ Len(chunkEmbeddings) = Len(DocChunks(variant, docs[1]))) =>
              /\ IsTopRanking(selected, ValidChunks(chunkText(docs[1].content, DefaultChunkSize)),
                              queryEmbedding, chunkEmbeddings)
              /\ result = Envelope(ReadText(docs[1], ChunksOf(selected)))

\* read-webpage ranked a document of more than five chunks: five are kept,
\* two of them tie, and they are not in document order.
C9_Witness ==
    /\ tool = "read-webpage"
    /\ pc = "done"
    /\ queryEmbedding.def
    /\ Len(chunkEmbeddings) = TopK + 1
    /\ Len(selected) = TopK
    /\ \E j \in 1..(TopK - 1) : ScoreEq(selected[j].score, selected[j + 1].score)
    /\ \E j \in 1..(TopK - 1) : selected[j].i > selected[j + 1].i

\* -------------------------------------------------------------------- C11
\* The words of a text: its maximal runs of non-whitespace characters.
RECURSIVE WordsFrom(_, _, _)
WordsFrom(s, i, cur) ==
    IF i > Len(s) THEN (IF cur = <<>> THEN <<>> ELSE <<cur>>)
    ELSE IF s[i] \in Whitespace
         THEN (IF cur = <<>> THEN <<>> ELSE <<cur>>) \o WordsFrom(s, i + 1, <<>>)
         ELSE WordsFrom(s, i + 1, Append(cur, s[i]))

WordsOf(s) == WordsFrom(s, 1, <<>>)

\* The whitespace-normalized text: its words separated by single spaces.
Normalized(s) == Join(WordsOf(s), <<" ">>)

\* C11: for every text T and chunk size n >= 1 the chunks of chunkText(T, n)
\* joined with single spaces equal the whitespace-normalized T, every chunk
\* has at most n words, and chunk k is the k-th window of n consecutive
\* words of T.
C11_ChunksReconstructText ==
    ctPc = "returned" =>
        /\ Join(ctChunks, <<" ">>) = Normalized(ctText)
        /\ \A k \in 1..Len(ctChunks) :
              /\ Len(WordsOf(ctChunks[k])) <= ctSize
              /\ WordsOf(ctChunks[k])
                    = Slice(WordsOf(ctText), (k - 1) * ctSize, k * ctSize)
        /\ Len(ctChunks) * ctSize >= Len(WordsOf(ctText))

\* -------------------------------------------------------------------- C12
\* Vectors of up to two components, the empty vector included.
CosineVectors == SeqsUpTo({-1, 0, 1}, 2)

ZeroMagnitude(v) == DotUpTo(v, v, Len(v)) = 0

\* cosineSimilarity was called with an undefined argument: the call read
\* .length of undefined and the TypeError ended the ranking, or (variant,
\* whose map is unguarded) a ranking went through without the query
\* embedding or with fewer vectors than chunks.
CosineCalledWithUndefined ==
    \/ result = FailedEnvelope(tool, "TypeError")
    \/ \E k \in 1..Len(tasks) :
          \/ tasks[k].error = "TypeError"
          \/ /\ variant # "index"
             /\ tasks[k].state = "resolved"
             /\ ~queryEmbedding.def \/ Len(tasks[k].embeddings) < Len(tasks[k].chunks)

\* C12: cosineSimilarity(a, b) is 0 whenever a or b has zero magnitude (the
\* empty vector and vectors of different lengths included), its divisor is
\* never zero, and during ranking it is never called with an undefined
\* chunk or query embedding.
C12_CosineTotalAndGuarded ==
    /\ \A a \in CosineVectors, b \in CosineVectors :
          /\ (ZeroMagnitude(a) \/ ZeroMagnitude(b)) =>
                cosineSimilarity(Some(a), Some(b)) = ZeroScore
          /\ cosineSimilarity(Some(a), Some(b)).d > 0
    /\ ~CosineCalledWithUndefined

\* -------------------------------------------------------------------- C13
\* The score of pair i of the ranking harness.
RankScore(i) == cosineSimilarity(Some(RankQuery), Some(RankVecs[rank.vecs[i]]))

\* The permuted order leaves every two pairs of equal score in the order
\* they have in the first submission.
TieOrderKept ==
    \A j, m \in 1..Len(rank.order) :
        (j < m /\ ScoreEq(RankScore(rank.order[j]), RankScore(rank.order[m]))) =>
            rank.order[j] < rank.order[m]

\* C13 as claimed: for a fixed set of (chunk, embedding) pairs and a fixed
\* query embedding the top-5 output is the same for every order in which
\* the chunks are submitted, chunks of equal score included.
C13_OutputSameForEveryOrder ==
    rank.pc = "returned" => rank.second = rank.first

\* C13 as amended: the top-5 output is the same for every two submission
\* orders in which the chunks of equal score keep their relative order.
C13_OutputSameUpToTieOrder ==
    (rank.pc = "returned" /\ TieOrderKept) => rank.second = rank.first

\* Six pairs, two of them tied, were ranked in a changed order that kept
\* the tied pairs in place, and five were selected.
C13_Witness ==
    /\ rank.pc = "returned"
    /\ Len(rank.vecs) = TopK + 1
    /\ TieOrderKept
    /\ rank.order # [i \in 1..Len(rank.vecs) |-> i]
    /\ \E i, j \in 1..Len(rank.vecs) : i # j /\ ScoreEq(RankScore(i), RankScore(j))
    /\ \E i, j \in 1..Len(rank.vecs) : ~ScoreEq(RankScore(i), RankScore(j))
    /\ rank.second = rank.first
    /\ rank.first.search # <<>>

\* -------------------------------------------------------------------- C14
\* Chunks were selected for the payload of the invocation.
ChunksSelected ==
    \/ selected # <<>>
    \/ \E k \in 1..Len(tasks) : tasks[k].selected # <<>>

\* C14: no ranking is performed with an empty query. In search and in
\* read-webpage a query that is empty after trimming is replaced by a
\* non-empty fallback text before scoring, so whenever chunks are selected
\* for such a query, the embedding of a fallback text was requested.
C14_NoRankingWithEmptyQuery ==
    (tool \in {"search", "read-webpage"} /\ IsBlank(query) /\ ChunksSelected) =>
        stats.queryRequests = 1

\* -------------------------------------------------------------------- C18
\* The block result k must have: its own number, title and URL, and the
\* chunks selected among the chunks of its own document.
OwnBlock(k) ==
    IF DocChunks(variant, docs[k]) = <<>> THEN EmptyBlock(k, docs[k])
    ELSE RankedBlock(k, docs[k], ChunksOf(tasks[k].selected))

SelectedFromOwnDocument(k) ==
    \A j \in 1..Len(tasks[k].selected) :
        LET e == tasks[k].selected[j]
        IN  /\ e.i \in 1..Len(DocChunks(variant, docs[k]))
            /\ e.c = DocChunks(variant, docs[k])[e.i]

SearchSucceeded ==
    tool = "search" /\ pc = "done" /\ docs # <<>> /\ ~IsFailure(result)

\* C18: the text of a successful search over N results is made of exactly
\* N blocks, numbered 1..N in the order of the provider's result list,
\* each with the title, URL and chunks of its own document, in whatever
\* order the per-document embedding requests complete.
C18_BlocksInResultOrder ==
    SearchSucceeded =>
        /\ Len(tasks) = Len(docs)
        /\ \A k \in 1..Len(docs) : SelectedFromOwnDocument(k)
        /\ result = Envelope(Join([k \in 1..Len(docs) |-> OwnBlock(k)], <<"\n\n">>))

\* A search over two results succeeded after the embeddings of the second
\* document arrived before those of the first.
C18_Witness ==
    /\ SearchSucceeded
    /\ Len(docs) = 2
    /\ tasks[2].settledAt = 1
    /\ tasks[1].settledAt = 2
    /\ tasks[1].selected # <<>>
    /\ tasks[2].selected # <<>>

(***************************************************************************)
(* C16: without the credential the process ends at the check.              *)
(***************************************************************************)

\* The process has gone past the credential check.
Serving == proc \in {"configured", "registered", "listening", "crashed"}

\* No request has been answered, no session opened, no tool invoked.
NothingServed ==
    /\ transports = {}
    /\ \A sid \in SessionIds : sse[sid] = NoSession
    /\ serverTransport = "none"
    /\ \A i \in 1..MaxInvocations : invs[i] = NoInvocation
    /\ lastPost = NoPost
    /\ lastDelivery = NoDelivery

\* C16: when JINA_API_KEY is unset or empty at startup, the process never
\* gets past the credential check: no tool is registered, the HTTP server
\* never listens, no request is answered and no tool is invoked, so the
\* missing credential cannot show up as the error of a call.
C16_NoCredentialNeverServes ==
    env # "set" => ~Serving /\ NothingServed

\* The process was started without the credential and has exited.
C16_Witness ==
    /\ env = "absent"
    /\ proc = "exited"

(***************************************************************************)
(* C17: the session map and the answers of POST /messages.                 *)
(***************************************************************************)

\* The map holds a session only while its SSE response is open and its
\* connect has not failed.
MapHoldsLiveSessionsOnly ==
    \A sid \in transports :
        /\ sse[sid].res = "open"
        /\ sse[sid].connect # "failed"

\* A POST without a session id is answered 400 and handed to no transport.
PostWithoutSessionIs400 ==
    (lastPost # NoPost /\ lastPost.param = "") =>
        lastPost.status = 400 /\ ~lastPost.handed

\* A POST naming a session id that is not in the map is answered 404 and
\* handed to no transport.
PostToAbsentSessionIs404 ==
    (lastPost # NoPost /\ lastPost.param # "" /\ ~lastPost.known) =>
        lastPost.status = 404 /\ ~lastPost.handed

\* C17: after any sequence of SSE connects, client disconnects, failed
\* connects and POST /messages requests, the transports map holds a session
\* id only if that session's response has not closed and its connect has
\* not failed; a POST naming a session id absent from the map is answered
\* 404 and never handed to a transport; a POST without a session id is
\* answered 400.
C17_MapAndPostAnswers ==
    /\ MapHoldsLiveSessionsOnly
    /\ PostWithoutSessionIs400
    /\ PostToAbsentSessionIs404

(***************************************************************************)
(* C15: sessions and invocations do not interfere.                         *)
(***************************************************************************)

\* C15: under any interleaving of the connects, messages and tool
\* invocations of two sessions, the result of an invocation is sent on the
\* session that issued it: on no other session, and on that session
\* whenever its SSE response is still open.
C15_ResultDeliveredOnIssuingSession ==
    lastDelivery # NoDelivery =>
        /\ lastDelivery.on \in {lastDelivery.from, "none"}
        /\ lastDelivery.fromOpen => lastDelivery.on = lastDelivery.from

====
